---- MODULE Spec2Model ----
(***************************************************************************)
(* yukkuri-lib: the script parser (list_item_specs), the image transform   *)
(* (calculate_image_transformation) and the alignment run (main) of        *)
(* src/yaml2items.py, with the item synthesis of src/project.py.           *)
(*                                                                         *)
(* Four specifications share the variables: Spec (main on a script and a   *)
(* project), SpecParser and SpecParserAny (list_item_specs on a script),   *)
(* SpecTransform (calculate_image_transformation on an image size).        *)
(*                                                                         *)
(* Texts are sequences of one-character strings so that str.strip() is     *)
(* computed and not assumed.  None is the record NoneVal.  A Python list   *)
(* is a sequence; voice_items holds references to the objects of           *)
(* project.Timeline.Items, modelled as indices into Items.                 *)
(***************************************************************************)
EXTENDS Integers, Sequences, FiniteSets, TLC

VARIABLES
    lines,              \* the loaded script: yaml.safe_load(...)
    video_info,         \* project.Timeline.VideoInfo: [Width, Height]
    t_in,               \* calculate_image_transformation called on its own: the
                        \* image's size, NoneVal when not called
    t_out,              \* its outcome [err, zoom, y], NoneVal until it ends
    p_i,                \* list_item_specs: index of the next line of the for loop
                        \* (of the line that raised, once p_pc = "error")
    current_item,       \* list_item_specs: current_item
    last_voice_spec,    \* list_item_specs: last_voice_spec
    yielded,            \* list_item_specs: the cue specifications yielded so far
    p_pc,               \* list_item_specs: "iter" | "done" | "error"
    p_err,              \* list_item_specs: the exception raised, "" when none
    pc,                 \* main: position
    err,                \* main: the exception raised, NoErr when none
    item_specs,         \* main: item_specs (the remaining cue specifications)
    Items,              \* main: project.Timeline.Items
    orig_items,         \* history: project.Timeline.Items as loaded
    s_i,                \* main: index of the layer-shift for loop
    voice_items,        \* main: voice_items, as indices into Items
    current_item_spec,  \* main: current_item_spec
    start_voice_item,   \* main: start_voice_item, an index into Items (0: unset)
    end_voice_item,     \* main: end_voice_item, an index into Items (0: unset)
    n_popped,           \* history: the cue specifications popped by the while loop
    output              \* the document written to output_path, NoneVal until written

vars == <<lines, video_info, t_in, t_out, p_i, current_item, last_voice_spec, yielded, p_pc, p_err,
          pc, err, item_specs, Items, orig_items, s_i, voice_items,
          current_item_spec, start_voice_item, end_voice_item, n_popped, output>>

input_vars == <<lines, video_info, t_in, t_out>>

parser_vars == <<p_i, current_item, last_voice_spec, yielded, p_pc, p_err>>

main_vars == <<pc, err, item_specs, Items, orig_items, s_i, voice_items,
               current_item_spec, start_voice_item, end_voice_item, n_popped, output>>

(***************************************************************************)
(* Bounds of the model.                                                    *)
(***************************************************************************)
MaxLines == 6     \* longest script drawn for the parser
MaxBlocks == 2    \* most cue blocks of a script drawn for main
MaxItems == 3     \* most items of a project drawn for main
MaxAnyLines == 4   \* longest script drawn with null, empty and string lines
MaxImageDim == 12 \* largest image side drawn for the calculator, in 200 pixels

NoneVal == [isNone |-> TRUE]

(***************************************************************************)
(* Numbers.  A float is modelled by the exact rational it stands for, a    *)
(* record [num, den] in lowest terms with den > 0.                         *)
(***************************************************************************)
Abs(n) == IF n < 0 THEN -n ELSE n

RECURSIVE GCD(_, _)
GCD(a, b) == IF b = 0 THEN a ELSE GCD(b, a % b)

\* n / d for two integers, d # 0
Rat(n, d) ==
    LET g == GCD(Abs(n), Abs(d))
        s == IF d < 0 THEN -1 ELSE 1
    IN  [num |-> (s * n) \div g, den |-> (s * d) \div g]

\* an integer as a number
Num(n) == [num |-> n, den |-> 1]

\* a < b
RatLess(a, b) == a.num * b.den < b.num * a.den

\* mutant of RatMin: the larger of the two
RatMax(a, b) == IF RatLess(a, b) THEN b ELSE a

\* min(a, b): the first argument when the two are equal
RatMin(a, b) == IF RatLess(b, a) THEN b ELSE a

\* k * a for an integer k
RatScale(k, a) == Rat(k * a.num, a.den)

\* a / k for an integer k # 0
RatDiv(a, k) == Rat(a.num, a.den * k)

(***************************************************************************)
(* Text helpers.                                                           *)
(***************************************************************************)
IsSpace(c) == c = " "

RECURSIVE LStrip(_)
LStrip(s) == IF s # <<>> /\ IsSpace(Head(s)) THEN LStrip(Tail(s)) ELSE s

RECURSIVE RStrip(_)
RStrip(s) ==
    IF s # <<>> /\ IsSpace(s[Len(s)]) THEN RStrip(SubSeq(s, 1, Len(s) - 1)) ELSE s

\* str.strip()
Strip(s) == RStrip(LStrip(s))

\* `word in s` for two strings: word occurs as a substring of s
Contains(s, word) ==
    \E k \in 0..(Len(s) - Len(word)) : SubSeq(s, k + 1, k + Len(word)) = word

ImageWord == <<"i", "m", "a", "g", "e">>
TextWord == <<"t", "e", "x", "t">>

(***************************************************************************)
(* Script lines.  A line is a one-key mapping, an empty mapping, a plain   *)
(* string or null.                                                         *)
(***************************************************************************)
DictLine(k, v) == [tag |-> "dict", key |-> k, value |-> v]
StrLine(v) == [tag |-> "str", key |-> <<>>, value |-> v]
EmptyDictLine == [tag |-> "empty", key |-> <<>>, value |-> <<>>]
NullLine == [tag |-> "null", key |-> <<>>, value |-> <<>>]

\* a cue-marker mapping with the optional keys zoom, y and font_size
MarkerLine(k, v, zoom, y, font_size) ==
    [tag |-> "dict", key |-> k, value |-> v,
     zoom |-> zoom, y |-> y, font_size |-> font_size]

\* line.get(f): the value of an optional key, None when the key is absent
Opt(line, f) == IF f \in DOMAIN line THEN line[f] ELSE NoneVal

Reimu == <<"r">>
Marisa == <<"m">>

ImageMarker == DictLine(ImageWord, <<"p">>)
TextMarker == DictLine(TextWord, <<"t">>)
VoiceLineA == DictLine(Reimu, <<"a", " ">>)
VoiceLineB == DictLine(Marisa, <<"a">>)
VoiceLineC == DictLine(Reimu, <<" ", "b">>)
PlainLine == StrLine(<<"h", "i">>)

\* cue markers with options: {image: p, zoom: 0, y: 10}, {image: p, zoom: 50}
\* and {text: t, zoom: 50, y: -10, font_size: 30}
ImageMarkerZoom0 == MarkerLine(ImageWord, <<"p">>, Num(0), Num(10), NoneVal)
ImageMarkerZoom == MarkerLine(ImageWord, <<"p">>, Num(50), NoneVal, NoneVal)
TextMarkerStyled == MarkerLine(TextWord, <<"t">>, Num(50), Num(-10), Num(30))

\* `key in line` (yaml2items.py:137, 147, 149): key membership for a mapping,
\* substring test for a string.  Not defined for null: see LineRaisesTypeError.
HasKey(line, k) ==
    CASE line.tag = "dict" -> line.key = k
      [] line.tag = "str" -> Contains(line.value, k)
      [] OTHER -> FALSE

\* `"image" in None` raises TypeError
LineRaisesTypeError(line) == line.tag = "null"

IsMarker(line) == HasKey(line, ImageWord) \/ HasKey(line, TextWord)

(***************************************************************************)
(* VoiceSpec and the cue specifications (ImageSpec, TextSpec).             *)
(***************************************************************************)
\* VoiceSpec(character=key, text=value): the validator strips the text
VoiceSpec(character, text) == [character |-> character, text |-> Strip(text)]

\* ImageSpec.parse_obj(line) / TextSpec.parse_obj(line)
ParseSpec(line) ==
    [kind |-> IF HasKey(line, ImageWord) THEN "image" ELSE "text",
     value |-> line.value,
     zoom |-> Opt(line, "zoom"),
     y |-> Opt(line, "y"),
     font_size |-> IF HasKey(line, ImageWord) THEN NoneVal
                   ELSE Opt(line, "font_size"),
     start_voice_spec |-> NoneVal,
     end_voice_spec |-> NoneVal]

(***************************************************************************)
(* list_item_specs, one iteration of its for loop.  st is the generator's  *)
(* state [current_item, last_voice_spec, yielded, err].                    *)
(***************************************************************************)
\* mutant of FinalizeAtMarker: endVoice does not default to startVoice
FinalizeAtMarkerNoDefault(st) ==
    LET cur == st.current_item
        e1 == IF st.last_voice_spec # NoneVal THEN st.last_voice_spec
              ELSE cur.end_voice_spec
        done == [cur EXCEPT !.end_voice_spec = e1]
    IN  IF cur = NoneVal THEN st
        ELSE IF done.start_voice_spec = NoneVal \/ done.end_voice_spec = NoneVal
             THEN [st EXCEPT !.current_item = done, !.err = "AssertionError"]
             ELSE [st EXCEPT !.current_item = done,
                             !.yielded = Append(st.yielded, done)]

\* mutant of FinalizeAtMarker: the cue is yielded without the assertion
FinalizeAtMarkerNoAssert(st) ==
    LET cur == st.current_item
        e1 == IF st.last_voice_spec # NoneVal THEN st.last_voice_spec
              ELSE cur.end_voice_spec
        e2 == IF e1 = NoneVal THEN cur.start_voice_spec ELSE e1
        done == [cur EXCEPT !.end_voice_spec = e2]
    IN  IF cur = NoneVal THEN st
        ELSE [st EXCEPT !.current_item = done,
                        !.yielded = Append(st.yielded, done)]

\* yaml2items.py:138-146: finalize current_item at a cue marker
FinalizeAtMarker(st) ==
    LET cur == st.current_item
        e1 == IF st.last_voice_spec # NoneVal THEN st.last_voice_spec
              ELSE cur.end_voice_spec
        e2 == IF e1 = NoneVal THEN cur.start_voice_spec ELSE e1
        done == [cur EXCEPT !.end_voice_spec = e2]
    IN  IF cur = NoneVal THEN st
        ELSE IF done.start_voice_spec = NoneVal \/ done.end_voice_spec = NoneVal
             THEN [st EXCEPT !.current_item = done, !.err = "AssertionError"]
             ELSE [st EXCEPT !.current_item = done,
                             !.yielded = Append(st.yielded, done)]

\* mutant of FinalizeAtEnd: the last cue is finalized and not yielded
FinalizeAtEndNoYield(st) ==
    LET cur == st.current_item
        e1 == IF st.last_voice_spec # NoneVal THEN st.last_voice_spec
              ELSE cur.end_voice_spec
        done == [cur EXCEPT !.end_voice_spec = e1]
    IN  IF cur = NoneVal THEN st
        ELSE IF done.start_voice_spec = NoneVal \/ done.end_voice_spec = NoneVal
             THEN [st EXCEPT !.current_item = done, !.err = "AssertionError"]
             ELSE [st EXCEPT !.current_item = done]

\* yaml2items.py:164-168: finalize current_item after the last line
FinalizeAtEnd(st) ==
    LET cur == st.current_item
        e1 == IF st.last_voice_spec # NoneVal THEN st.last_voice_spec
              ELSE cur.end_voice_spec
        done == [cur EXCEPT !.end_voice_spec = e1]
    IN  IF cur = NoneVal THEN st
        ELSE IF done.start_voice_spec = NoneVal \/ done.end_voice_spec = NoneVal
             THEN [st EXCEPT !.current_item = done, !.err = "AssertionError"]
             ELSE [st EXCEPT !.current_item = done,
                             !.yielded = Append(st.yielded, done)]

\* yaml2items.py:147-151: start the cue of a marker line
StartCue(st, line) ==
    IF line.tag # "dict"
    THEN [st EXCEPT !.err = "ValidationError"]
    ELSE [st EXCEPT !.current_item = ParseSpec(line), !.last_voice_spec = NoneVal]

\* mutant of VoiceLine: a pending end voice is not overwritten
VoiceLineKeepsFirstEnd(st, line) ==
    IF st.current_item = NoneVal THEN st
    ELSE IF line.tag # "dict" THEN st
    ELSE LET voice_spec == VoiceSpec(line.key, line.value)
         IN  IF st.current_item.start_voice_spec = NoneVal
             THEN [st EXCEPT !.current_item.start_voice_spec = voice_spec]
             ELSE IF st.last_voice_spec # NoneVal THEN st
             ELSE [st EXCEPT !.last_voice_spec = voice_spec]

\* yaml2items.py:153-162: a line that is no marker
VoiceLine(st, line) ==
    IF st.current_item = NoneVal THEN st
    ELSE IF line.tag # "dict" THEN st
    ELSE LET voice_spec == VoiceSpec(line.key, line.value)
         IN  IF st.current_item.start_voice_spec = NoneVal
             THEN [st EXCEPT !.current_item.start_voice_spec = voice_spec]
             ELSE [st EXCEPT !.last_voice_spec = voice_spec]

\* yaml2items.py:136-162: the body of the for loop
ParseLine(st, line) ==
    IF LineRaisesTypeError(line) THEN [st EXCEPT !.err = "TypeError"]
    ELSE IF IsMarker(line)
         THEN LET f == FinalizeAtMarker(st)
              IN  IF f.err # "" THEN f ELSE StartCue(f, line)
         ELSE VoiceLine(st, line)

ParserInit == [current_item |-> NoneVal, last_voice_spec |-> NoneVal,
               yielded |-> <<>>, err |-> ""]

RECURSIVE ParseFrom(_, _, _)
ParseFrom(st, ls, k) ==
    IF st.err # "" THEN st
    ELSE IF k > Len(ls) THEN FinalizeAtEnd(st)
    ELSE ParseFrom(ParseLine(st, ls[k]), ls, k + 1)

\* list(list_item_specs(lines)): the final generator state
ListItemSpecs(ls) == ParseFrom(ParserInit, ls, 1)

(***************************************************************************)
(* list_item_specs as a process: one action per iteration of the for loop. *)
(***************************************************************************)
GenState == [current_item |-> current_item, last_voice_spec |-> last_voice_spec,
             yielded |-> yielded, err |-> ""]

SetGenState(st) ==
    /\ current_item' = st.current_item
    /\ last_voice_spec' = st.last_voice_spec
    /\ yielded' = st.yielded
    /\ p_err' = st.err
    /\ p_pc' = IF st.err # "" THEN "error" ELSE p_pc

\* yaml2items.py:136-162
ParserStep ==
    /\ p_pc = "iter"
    /\ p_i <= Len(lines)
    /\ SetGenState(ParseLine(GenState, lines[p_i]))
    /\ p_i' = IF ParseLine(GenState, lines[p_i]).err # "" THEN p_i ELSE p_i + 1
    /\ UNCHANGED <<input_vars, main_vars>>

\* yaml2items.py:164-168
ParserEnd ==
    /\ p_pc = "iter"
    /\ p_i > Len(lines)
    /\ LET st == FinalizeAtEnd(GenState)
       IN  /\ current_item' = st.current_item
           /\ last_voice_spec' = st.last_voice_spec
           /\ yielded' = st.yielded
           /\ p_err' = st.err
           /\ p_pc' = IF st.err # "" THEN "error" ELSE "done"
    /\ UNCHANGED <<p_i, input_vars, main_vars>>

(***************************************************************************)
(* calculate_image_transformation (yaml2items.py:114-130).  image_size is  *)
(* image.size, the pair the image library reports.                         *)
(***************************************************************************)
\* the margins main passes (yaml2items.py:81)
BottomMargin == 320
SideMargin == 20

TransformRaised(type) == [err |-> type, zoom |-> NoneVal, y |-> NoneVal]

CalculateImageTransformation(image_size, vinfo, bottom_margin, margin) ==
    LET image_width == image_size[1]
        image_height == image_size[2]
        y == Rat(-bottom_margin, 2)
    IN  IF image_width = 0 THEN TransformRaised("ZeroDivisionError")
        ELSE IF image_height = 0 THEN TransformRaised("ZeroDivisionError")
        ELSE LET width_zoom == Rat(vinfo.Width - margin, image_width)
                 height_zoom == Rat(vinfo.Height - margin - bottom_margin,
                                    image_height)
                 zoom == RatScale(100, RatMin(width_zoom, height_zoom))
             IN  IF ~ RatLess(RatDiv(RatScale(image_height, zoom), 100),
                              Num(vinfo.Height - bottom_margin))
                 THEN TransformRaised("AssertionError")
                 ELSE IF ~ RatLess(RatDiv(RatScale(image_width, zoom), 100),
                                   Num(vinfo.Width))
                 THEN TransformRaised("AssertionError")
                 ELSE [err |-> "", zoom |-> zoom, y |-> y]

(***************************************************************************)
(* Project items.                                                          *)
(***************************************************************************)
VoiceItem(character, serif, layer, frame, length) ==
    [Type |-> "Voice", Layer |-> layer, Frame |-> frame, Length |-> length,
     CharacterName |-> character, Serif |-> serif, Payload |-> <<>>]

ShapeItem(layer, frame, length) ==
    [Type |-> "Shape", Layer |-> layer, Frame |-> frame, Length |-> length,
     CharacterName |-> <<>>, Serif |-> <<>>, Payload |-> <<>>]

\* VoiceSpec.matches (yaml2items.py:23-28)
Matches(spec, other) ==
    IF spec.character # other.CharacterName THEN FALSE
    ELSE IF spec.text # other.Serif THEN FALSE
    ELSE TRUE

\* Animation() (project.py:22-26); AnimationType "nashi" stands for the
\* Japanese word of the source, "none"
Animation ==
    [From |-> Num(0), To |-> Num(0), AnimationType |-> "nashi", Span |-> Num(0)]

\* mutant of Const: the value is stored in From and in To
ConstFromTo(value) == [Animation EXCEPT !.From = value, !.To = value]

\* Animation.const (project.py:28-30): cls(From=value)
Const(value) == [Animation EXCEPT !.From = value]

\* `if x:` for an Optional[float]: None and 0 are false
Truthy(x) == x # NoneVal /\ x.num # 0

\* mutant of AttrsFromSpec: the duration is the end item's last frame, the
\* start frame is not subtracted
AttrsFromSpecToEnd(spec, layer, start_item, end_item) ==
    [Layer |-> layer,
     Frame |-> start_item.Frame,
     Length |-> end_item.Frame + end_item.Length,
     Zoom |-> IF Truthy(spec.zoom) THEN Const(spec.zoom) ELSE NoneVal,
     Y |-> IF Truthy(spec.y) THEN Const(spec.y) ELSE NoneVal,
     FontSize |-> IF Truthy(spec.font_size) THEN Const(spec.font_size)
                  ELSE NoneVal]

\* mutant of AttrsFromSpec: the duration is the end item's own duration
AttrsFromSpecEndLength(spec, layer, start_item, end_item) ==
    [Layer |-> layer,
     Frame |-> start_item.Frame,
     Length |-> end_item.Length,
     Zoom |-> IF Truthy(spec.zoom) THEN Const(spec.zoom) ELSE NoneVal,
     Y |-> IF Truthy(spec.y) THEN Const(spec.y) ELSE NoneVal,
     FontSize |-> IF Truthy(spec.font_size) THEN Const(spec.font_size)
                  ELSE NoneVal]

\* ItemBase.attrs_from_spec (project.py:75-84) with the FontSize of
\* TextItem.attrs_from_spec (project.py:145-146); a key that is not set is
\* NoneVal
AttrsFromSpec(spec, layer, start_item, end_item) ==
    [Layer |-> layer,
     Frame |-> start_item.Frame,
     Length |-> end_item.Frame + end_item.Length - start_item.Frame,
     Zoom |-> IF Truthy(spec.zoom) THEN Const(spec.zoom) ELSE NoneVal,
     Y |-> IF Truthy(spec.y) THEN Const(spec.y) ELSE NoneVal,
     FontSize |-> IF Truthy(spec.font_size) THEN Const(spec.font_size)
                  ELSE NoneVal]

\* the field defaults of the item classes (project.py:49, 51, 119)
DefaultY == Animation
DefaultZoom == Const(Num(100))
DefaultFontSize == Const(Num(48))

\* cls(**attrs): a field that attrs does not set takes its default
Field(attr, default) == IF attr = NoneVal THEN default ELSE attr

\* ImageItem.from_spec / TextItem.from_spec followed by .dict(by_alias=True)
FromSpec(spec, layer, start_item, end_item) ==
    LET attrs == AttrsFromSpec(spec, layer, start_item, end_item)
    IN  IF spec.kind = "image"
        THEN [Type |-> "Image",
              Layer |-> attrs.Layer, Frame |-> attrs.Frame, Length |-> attrs.Length,
              CharacterName |-> <<>>, Serif |-> <<>>, Payload |-> spec.value,
              Zoom |-> Field(attrs.Zoom, DefaultZoom),
              Y |-> Field(attrs.Y, DefaultY)]
        ELSE [Type |-> "Text",
              Layer |-> attrs.Layer, Frame |-> attrs.Frame, Length |-> attrs.Length,
              CharacterName |-> <<>>, Serif |-> <<>>, Payload |-> spec.value,
              Zoom |-> Field(attrs.Zoom, DefaultZoom),
              Y |-> Field(attrs.Y, DefaultY),
              FontSize |-> Field(attrs.FontSize, DefaultFontSize)]

\* yaml2items.py:83-86: the cue takes the calculated zoom and y it does not set
FillTransform(spec, transform) ==
    [spec EXCEPT !.zoom = IF @ = NoneVal THEN transform.zoom ELSE @,
                 !.y = IF @ = NoneVal THEN transform.y ELSE @]

\* yaml2items.py:52
layer == 3

\* mutant of ShiftedLayer: items on the insertion layer itself stay
ShiftedLayerStrict(l) == IF l > layer THEN l + 1 ELSE l

\* the layer shift of one item (yaml2items.py:54-55)
ShiftedLayer(l) == IF l >= layer THEN l + 1 ELSE l

\* yaml2items.py:56-58: the voice items of the project, in order, as references
RECURSIVE VoiceRefs(_, _)
VoiceRefs(its, k) ==
    IF k > Len(its) THEN <<>>
    ELSE IF its[k].Type = "Voice" THEN <<k>> \o VoiceRefs(its, k + 1)
    ELSE VoiceRefs(its, k + 1)

NoErr == [type |-> "", ref |-> NoneVal]
ValueError(ref) == [type |-> "ValueError", ref |-> ref]
Raised(type) == [type |-> type, ref |-> NoneVal]

(***************************************************************************)
(* main (yaml2items.py:47-106).                                            *)
(***************************************************************************)
\* line 49: list(list_item_specs(lines)) returns
ListReturns ==
    /\ pc = "parse"
    /\ p_pc = "done"
    /\ item_specs' = yielded
    /\ pc' = "load"
    /\ UNCHANGED <<input_vars, parser_vars, err, Items, orig_items, s_i, voice_items,
                   current_item_spec, start_voice_item, end_voice_item,
                   n_popped, output>>

\* line 49: list(list_item_specs(lines)) raises
ListRaises ==
    /\ pc = "parse"
    /\ p_pc = "error"
    /\ err' = Raised(p_err)
    /\ pc' = "error"
    /\ UNCHANGED <<input_vars, parser_vars, item_specs, Items, orig_items, s_i,
                   voice_items, current_item_spec, start_voice_item,
                   end_voice_item, n_popped, output>>

\* lines 50-51: the project document is read and parsed, the project root is
\* looked up in the environment.  These are calls to external collaborators,
\* each of which returns or raises; line 51 reads os.environ in a module that
\* does not import os, and raises NameError unless the importer binds the name.
LoadProject ==
    /\ pc = "load"
    /\ \E ok \in BOOLEAN :
          IF ok THEN pc' = "shift" /\ err' = err
          ELSE pc' = "error" /\ err' = Raised("LoadError")
    /\ s_i' = 1
    /\ UNCHANGED <<input_vars, parser_vars, item_specs, Items, orig_items, voice_items,
                   current_item_spec, start_voice_item, end_voice_item,
                   n_popped, output>>

\* lines 53-55: one iteration of the layer-shift loop
ShiftLayer ==
    /\ pc = "shift"
    /\ s_i <= Len(Items)
    /\ Items' = [Items EXCEPT ![s_i].Layer = ShiftedLayer(Items[s_i].Layer)]
    /\ s_i' = s_i + 1
    /\ UNCHANGED <<input_vars, parser_vars, pc, err, item_specs, orig_items, voice_items,
                   current_item_spec, start_voice_item, end_voice_item,
                   n_popped, output>>

\* lines 56-58
FilterVoice ==
    /\ pc = "shift"
    /\ s_i > Len(Items)
    /\ voice_items' = VoiceRefs(Items, 1)
    /\ pc' = "loop"
    /\ UNCHANGED <<input_vars, parser_vars, err, item_specs, Items, orig_items, s_i,
                   current_item_spec, start_voice_item, end_voice_item,
                   n_popped, output>>

\* lines 59-60: the while condition holds, the next cue specification is popped
PopCue ==
    /\ pc = "loop"
    /\ Len(item_specs) # 0 /\ Len(voice_items) # 0
    /\ current_item_spec' = Head(item_specs)
    /\ item_specs' = Tail(item_specs)
    /\ n_popped' = n_popped + 1
    /\ pc' = "scan_start"
    /\ UNCHANGED <<input_vars, parser_vars, err, Items, orig_items, s_i, voice_items,
                   start_voice_item, end_voice_item, output>>

\* mutant of LoopExit: leaving the loop with cues left over is an error
LoopExitRejectsLeftover ==
    /\ pc = "loop"
    /\ ~(Len(item_specs) # 0 /\ Len(voice_items) # 0)
    /\ IF item_specs # <<>>
       THEN pc' = "error" /\ err' = ValueError(Head(item_specs).start_voice_spec)
       ELSE pc' = "write" /\ err' = err
    /\ UNCHANGED <<input_vars, parser_vars, item_specs, Items, orig_items, s_i,
                   voice_items, current_item_spec, start_voice_item,
                   end_voice_item, n_popped, output>>

\* line 59: the while condition fails
LoopExit ==
    /\ pc = "loop"
    /\ ~(Len(item_specs) # 0 /\ Len(voice_items) # 0)
    /\ pc' = "write"
    /\ UNCHANGED <<input_vars, parser_vars, err, item_specs, Items, orig_items, s_i,
                   voice_items, current_item_spec, start_voice_item,
                   end_voice_item, n_popped, output>>

\* lines 61-64
DiscardBeforeStart ==
    /\ pc = "scan_start"
    /\ voice_items # <<>>
    /\ ~Matches(current_item_spec.start_voice_spec, Items[Head(voice_items)])
    /\ voice_items' = Tail(voice_items)
    /\ UNCHANGED <<input_vars, parser_vars, pc, err, item_specs, Items, orig_items, s_i,
                   current_item_spec, start_voice_item, end_voice_item,
                   n_popped, output>>

\* lines 65-68
StartUnmatched ==
    /\ pc = "scan_start"
    /\ voice_items = <<>>
    /\ err' = ValueError(current_item_spec.start_voice_spec)
    /\ pc' = "error"
    /\ UNCHANGED <<input_vars, parser_vars, item_specs, Items, orig_items, s_i,
                   voice_items, current_item_spec, start_voice_item,
                   end_voice_item, n_popped, output>>

\* mutant of RecordStart: the matched start item is popped
RecordStartPops ==
    /\ pc = "scan_start"
    /\ voice_items # <<>>
    /\ Matches(current_item_spec.start_voice_spec, Items[Head(voice_items)])
    /\ start_voice_item' = Head(voice_items)
    /\ voice_items' = Tail(voice_items)
    /\ pc' = "scan_end"
    /\ UNCHANGED <<input_vars, parser_vars, err, item_specs, Items, orig_items, s_i,
                   current_item_spec, end_voice_item, n_popped, output>>

\* line 69
RecordStart ==
    /\ pc = "scan_start"
    /\ voice_items # <<>>
    /\ Matches(current_item_spec.start_voice_spec, Items[Head(voice_items)])
    /\ start_voice_item' = Head(voice_items)
    /\ pc' = "scan_end"
    /\ UNCHANGED <<input_vars, parser_vars, err, item_specs, Items, orig_items, s_i,
                   voice_items, current_item_spec, end_voice_item,
                   n_popped, output>>

\* lines 70-73
DiscardBeforeEnd ==
    /\ pc = "scan_end"
    /\ voice_items # <<>>
    /\ ~Matches(current_item_spec.end_voice_spec, Items[Head(voice_items)])
    /\ voice_items' = Tail(voice_items)
    /\ UNCHANGED <<input_vars, parser_vars, pc, err, item_specs, Items, orig_items, s_i,
                   current_item_spec, start_voice_item, end_voice_item,
                   n_popped, output>>

\* mutant of EndUnmatched: the error names the cue's start voice
EndUnmatchedNamesStart ==
    /\ pc = "scan_end"
    /\ voice_items = <<>>
    /\ err' = ValueError(current_item_spec.start_voice_spec)
    /\ pc' = "error"
    /\ UNCHANGED <<input_vars, parser_vars, item_specs, Items, orig_items, s_i,
                   voice_items, current_item_spec, start_voice_item,
                   end_voice_item, n_popped, output>>

\* lines 74-77
EndUnmatched ==
    /\ pc = "scan_end"
    /\ voice_items = <<>>
    /\ err' = ValueError(current_item_spec.end_voice_spec)
    /\ pc' = "error"
    /\ UNCHANGED <<input_vars, parser_vars, item_specs, Items, orig_items, s_i,
                   voice_items, current_item_spec, start_voice_item,
                   end_voice_item, n_popped, output>>

\* mutant of PopEnd: the matched end item stays in the queue
PopEndKeeps ==
    /\ pc = "scan_end"
    /\ voice_items # <<>>
    /\ Matches(current_item_spec.end_voice_spec, Items[Head(voice_items)])
    /\ end_voice_item' = Head(voice_items)
    /\ voice_items' = voice_items
    /\ pc' = "synth"
    /\ UNCHANGED <<input_vars, parser_vars, err, item_specs, Items, orig_items, s_i,
                   current_item_spec, start_voice_item, n_popped, output>>

\* line 78
PopEnd ==
    /\ pc = "scan_end"
    /\ voice_items # <<>>
    /\ Matches(current_item_spec.end_voice_spec, Items[Head(voice_items)])
    /\ end_voice_item' = Head(voice_items)
    /\ voice_items' = Tail(voice_items)
    /\ pc' = "synth"
    /\ UNCHANGED <<input_vars, parser_vars, err, item_specs, Items, orig_items, s_i,
                   current_item_spec, start_voice_item, n_popped, output>>

\* the sizes of the images the scripts drawn for main refer to
MainImageSizes == {<<800, 600>>, <<3800, 600>>}

\* lines 79-86: for an image cue whose image has the given size, the cue
\* after calculate_image_transformation has returned and filled it
ResolvedSpec(spec, image_size) ==
    IF spec.kind = "image"
    THEN FillTransform(spec, CalculateImageTransformation(
                                 image_size, video_info, BottomMargin, SideMargin))
    ELSE spec

\* mutant of Synthesize: the new item is inserted at the front of the list
SynthesizeInsertsFirst ==
    /\ pc = "synth"
    /\ \E image_size \in MainImageSizes :
          LET spec == ResolvedSpec(current_item_spec, image_size)
          IN  /\ current_item_spec' = spec
              /\ Items' = <<FromSpec(spec, layer, Items[start_voice_item],
                                     Items[end_voice_item])>> \o Items
    /\ pc' = "loop"
    /\ UNCHANGED <<input_vars, parser_vars, err, item_specs, orig_items, s_i, voice_items,
                   start_voice_item, end_voice_item, n_popped, output>>

\* lines 79-95: the new item is built from the cue and the two voice items,
\* and appended.  For an image cue, calculate_image_transformation has
\* opened the image and returned, and the cue object is filled in place.
Synthesize ==
    /\ pc = "synth"
    /\ \E image_size \in MainImageSizes :
          LET spec == ResolvedSpec(current_item_spec, image_size)
          IN  /\ current_item_spec' = spec
              /\ Items' = Append(Items, FromSpec(spec, layer, Items[start_voice_item],
                                                 Items[end_voice_item]))
    /\ pc' = "loop"
    /\ UNCHANGED <<input_vars, parser_vars, err, item_specs, orig_items, s_i, voice_items,
                   start_voice_item, end_voice_item, n_popped, output>>

\* lines 80-82: for an image cue, opening the image (an external collaborator)
\* raises
ImageRaises ==
    /\ pc = "synth"
    /\ current_item_spec.kind = "image"
    /\ err' = Raised("ImageError")
    /\ pc' = "error"
    /\ UNCHANGED <<input_vars, parser_vars, item_specs, Items, orig_items, s_i,
                   voice_items, current_item_spec, start_voice_item,
                   end_voice_item, n_popped, output>>

\* lines 97-106: the items are listed and the document is written
WriteOutput ==
    /\ pc = "write"
    /\ output' = Items
    /\ pc' = "done"
    /\ UNCHANGED <<input_vars, parser_vars, err, item_specs, Items, orig_items, s_i,
                   voice_items, current_item_spec, start_voice_item,
                   end_voice_item, n_popped>>

(***************************************************************************)
(* Inputs.                                                                 *)
(***************************************************************************)
RECURSIVE SeqsUpTo(_, _)
SeqsUpTo(S, n) ==
    IF n = 0 THEN {<<>>}
    ELSE LET shorter == SeqsUpTo(S, n - 1)
         IN  shorter \cup {Append(s, x) : s \in shorter, x \in S}

RECURSIVE Flatten(_)
Flatten(ss) == IF ss = <<>> THEN <<>> ELSE Head(ss) \o Flatten(Tail(ss))

\* the lines drawn for the parser
LineUniverse == {ImageMarker, TextMarker, VoiceLineA, VoiceLineB, PlainLine}

\* the cue blocks (a marker and its voice lines) of the scripts drawn for main
BlockUniverse ==
    { <<TextMarker, VoiceLineA>>,
      <<TextMarkerStyled, VoiceLineA, VoiceLineB>>,
      <<ImageMarker, VoiceLineB, PlainLine, VoiceLineC>>,
      <<ImageMarkerZoom0, VoiceLineC, VoiceLineA>>,
      <<ImageMarkerZoom, VoiceLineB, VoiceLineC, VoiceLineB>> }

\* the project items drawn for main
ItemUniverse ==
    { VoiceItem(Reimu, <<"a">>, 1, 100, 30),
      VoiceItem(Marisa, <<"a">>, 3, 140, 20),
      VoiceItem(Reimu, <<"b">>, 4, 200, 50),
      VoiceItem(Reimu, <<"a", " ">>, 2, 120, 10),
      ShapeItem(3, 0, 300) }

\* the canvas of the project documents drawn for main
FullHD == [Width |-> 1920, Height |-> 1080]

MainIdle ==
    /\ err = NoErr
    /\ item_specs = <<>>
    /\ s_i = 1
    /\ voice_items = <<>>
    /\ current_item_spec = NoneVal
    /\ start_voice_item = 0
    /\ end_voice_item = 0
    /\ n_popped = 0
    /\ output = NoneVal

ParserStart ==
    /\ p_i = 1
    /\ current_item = NoneVal
    /\ last_voice_spec = NoneVal
    /\ yielded = <<>>
    /\ p_pc = "iter"
    /\ p_err = ""

\* main is called with a script and a project document
Init ==
    /\ lines \in {Flatten(bs) : bs \in SeqsUpTo(BlockUniverse, MaxBlocks)}
    /\ video_info = FullHD
    /\ t_in = NoneVal
    /\ t_out = NoneVal
    /\ Items \in SeqsUpTo(ItemUniverse, MaxItems)
    /\ orig_items = Items
    /\ pc = "parse"
    /\ ParserStart
    /\ MainIdle

Next ==
    \/ ParserStep
    \/ ParserEnd
    \/ ListReturns
    \/ ListRaises
    \/ LoadProject
    \/ ShiftLayer
    \/ FilterVoice
    \/ PopCue
    \/ LoopExit
    \/ DiscardBeforeStart
    \/ StartUnmatched
    \/ RecordStart
    \/ DiscardBeforeEnd
    \/ EndUnmatched
    \/ PopEnd
    \/ Synthesize
    \/ ImageRaises
    \/ WriteOutput

Spec == Init /\ [][Next]_vars

\* list_item_specs is called on a script
InitParser ==
    /\ lines \in SeqsUpTo(LineUniverse, MaxLines)
    /\ video_info = FullHD
    /\ t_in = NoneVal
    /\ t_out = NoneVal
    /\ Items = <<>>
    /\ orig_items = <<>>
    /\ pc = "idle"
    /\ ParserStart
    /\ MainIdle

NextParser ==
    \/ ParserStep
    \/ ParserEnd

SpecParser == InitParser /\ [][NextParser]_vars

\* a plain string that has the word "text" in it: "a text"
ProseLine == StrLine(<<"a", " ">> \o TextWord)

\* the lines drawn for the parser when every kind of line may occur
AnyLineUniverse == LineUniverse \cup {NullLine, EmptyDictLine, ProseLine}

\* list_item_specs is called on a script with every kind of line
InitParserAny ==
    /\ lines \in SeqsUpTo(AnyLineUniverse, MaxAnyLines)
    /\ video_info = FullHD
    /\ t_in = NoneVal
    /\ t_out = NoneVal
    /\ Items = <<>>
    /\ orig_items = <<>>
    /\ pc = "idle"
    /\ ParserStart
    /\ MainIdle

SpecParserAny == InitParserAny /\ [][NextParser]_vars

(***************************************************************************)
(* calculate_image_transformation called on its own, with the margins of   *)
(* main.                                                                   *)
(***************************************************************************)
\* the image sides drawn: negative, zero, one pixel, and multiples of 200
ImageDims == {1} \cup {200 * k : k \in (-2)..MaxImageDim}

\* the canvases drawn; the last two leave no room inside the margins
CanvasUniverse ==
    { FullHD,
      [Width |-> 1280, Height |-> 720],
      [Width |-> 640, Height |-> 360],
      [Width |-> 20, Height |-> 340],
      [Width |-> 10, Height |-> 300] }

\* yaml2items.py:114-130, returning
TransformReturns ==
    /\ t_in # NoneVal
    /\ t_out = NoneVal
    /\ LET r == CalculateImageTransformation(t_in, video_info,
                                             BottomMargin, SideMargin)
       IN  /\ r.err = ""
           /\ t_out' = r
    /\ UNCHANGED <<lines, video_info, t_in, parser_vars, main_vars>>

\* yaml2items.py:124-128, raising
TransformRaises ==
    /\ t_in # NoneVal
    /\ t_out = NoneVal
    /\ LET r == CalculateImageTransformation(t_in, video_info,
                                             BottomMargin, SideMargin)
       IN  /\ r.err # ""
           /\ t_out' = r
    /\ UNCHANGED <<lines, video_info, t_in, parser_vars, main_vars>>

InitTransform ==
    /\ lines = <<>>
    /\ video_info \in CanvasUniverse
    /\ t_in \in ImageDims \X ImageDims
    /\ t_out = NoneVal
    /\ Items = <<>>
    /\ orig_items = <<>>
    /\ pc = "idle"
    /\ ParserStart
    /\ MainIdle

NextTransform ==
    \/ TransformReturns
    \/ TransformRaises

SpecTransform == InitTransform /\ [][NextTransform]_vars

(***************************************************************************)
(* Reference definitions for the properties of the alignment run.  They    *)
(* are stated over the project as loaded (orig_items) and the parsed cue   *)
(* specifications (yielded), by position, and not over the work queues.    *)
(***************************************************************************)
NumOrig == Len(orig_items)
NumNew == Len(Items) - Len(orig_items)
Last(s) == s[Len(s)]

IsVoiceMatch(spec, k) ==
    orig_items[k].Type = "Voice" /\ Matches(spec, orig_items[k])

\* the first position >= k of a voice item matching spec, 0 when there is none
FirstMatchFrom(k, spec) ==
    IF \E i \in k..NumOrig : IsVoiceMatch(spec, i)
    THEN CHOOSE i \in k..NumOrig :
            /\ IsVoiceMatch(spec, i)
            /\ \A h \in k..(i - 1) : ~IsVoiceMatch(spec, h)
    ELSE 0

\* the positions matched by the j-th cue specification, when every cue
\* before it has matched
RECURSIVE EndPos(_)
StartPos(j) == FirstMatchFrom(EndPos(j - 1) + 1, yielded[j].start_voice_spec)
EndPos(j) ==
    IF j = 0 THEN 0 ELSE FirstMatchFrom(StartPos(j), yielded[j].end_voice_spec)

\* C1 (as claimed): a cue whose startVoice matches only voice items at or
\* before the previous cue's endVoiceItem makes the run fail with the
\* unmatched-voice error; so no run gets to write the document with such a cue
\* next in the queue.
C1_BacktrackAlwaysFails ==
    pc \in {"write", "done"} =>
        ~( /\ item_specs # <<>>
           /\ n_popped >= 1
           /\ end_voice_item # 0
           /\ \E k \in 1..end_voice_item :
                 IsVoiceMatch(Head(item_specs).start_voice_spec, k)
           /\ \A k \in (end_voice_item + 1)..NumOrig :
                 ~IsVoiceMatch(Head(item_specs).start_voice_spec, k) )

\* C2 (as claimed): in every run that reaches the writing of the document, the
\* number of synthesized items appended to the item list equals the number
\* of cue specifications produced by the parser.
C2_NoPartialSuccess ==
    pc \in {"write", "done"} => NumNew = Len(yielded)

\* the start of the current cue has been found, and no voice item from it
\* onward matches the cue's endVoice
EndCannotMatch ==
    /\ pc = "scan_end"
    /\ \A k \in start_voice_item..NumOrig :
          ~IsVoiceMatch(current_item_spec.end_voice_spec, k)

\* C3: once a cue's start voice item is found and no voice item from it onward
\* matches the cue's endVoice, every step either discards one more voice item
\* or raises the unmatched-voice error naming cue.endVoice; nothing runs after
\* an error, so the document is never written.
C3_UnmatchedEndRaises ==
    [][ /\ EndCannotMatch =>
            \/ EndCannotMatch' /\ Len(voice_items') < Len(voice_items)
            \/ /\ pc' = "error"
               /\ err' = ValueError(current_item_spec.end_voice_spec)
               /\ output' = NoneVal
        /\ pc = "error" => UNCHANGED vars ]_vars

\* C3 witness: the first cue's start was found, its end was not, and the run
\* stopped with the error naming the end voice
C3_Witness ==
    /\ pc = "error"
    /\ n_popped = 1
    /\ start_voice_item # 0
    /\ current_item_spec.end_voice_spec # current_item_spec.start_voice_spec
    /\ err = ValueError(current_item_spec.end_voice_spec)
    /\ output = NoneVal

\* C4: the j-th synthesized item has frame = startVoiceItem.frame and duration
\* = endVoiceItem.frame + endVoiceItem.duration - startVoiceItem.frame, for
\* startVoiceItem the first remaining voice item matching the j-th cue's
\* startVoice and endVoiceItem the first voice item at or after it matching
\* its endVoice.
C4_FrameAndDuration ==
    \A j \in 1..NumNew :
        LET sp == StartPos(j)
            ep == EndPos(j)
            new == Items[NumOrig + j]
        IN  /\ sp # 0 /\ ep # 0
            /\ new.Frame = orig_items[sp].Frame
            /\ new.Length = orig_items[ep].Frame + orig_items[ep].Length
                              - orig_items[sp].Frame

\* C4 witness: start frame 100, end frame 140, end duration 20 give an item
\* with frame 100 and duration 60
C4_Witness ==
    /\ NumNew >= 1
    /\ orig_items[StartPos(1)].Frame = 100
    /\ orig_items[EndPos(1)].Frame = 140
    /\ orig_items[EndPos(1)].Length = 20
    /\ Items[NumOrig + 1].Frame = 100
    /\ Items[NumOrig + 1].Length = 60

\* C5: once the layer-shift loop is over (so before any item is appended),
\* every pre-existing item whose layer was >= 3 has its layer raised by exactly
\* one and every other keeps its layer; every synthesized item is on layer 3;
\* no pre-existing item is then on layer 3.
C5_LayerShift ==
    (pc \in {"loop", "scan_start", "scan_end", "synth", "write", "done"}
       \/ NumNew > 0) =>
        /\ \A k \in 1..NumOrig :
              /\ orig_items[k].Layer >= 3 => Items[k].Layer = orig_items[k].Layer + 1
              /\ orig_items[k].Layer < 3 => Items[k].Layer = orig_items[k].Layer
              /\ Items[k].Layer # 3
        /\ \A j \in 1..NumNew : Items[NumOrig + j].Layer = 3

\* C5 witness: items on layers 1, 3 and 4 are on layers 1, 4 and 5 after the
\* run, which appended an item
C5_Witness ==
    /\ pc = "done"
    /\ NumNew > 0
    /\ NumOrig = 3
    /\ <<orig_items[1].Layer, orig_items[2].Layer, orig_items[3].Layer>> = <<1, 3, 4>>
    /\ <<Items[1].Layer, Items[2].Layer, Items[3].Layer>> = <<1, 4, 5>>

(***************************************************************************)
(* Reference definitions for the properties of the parser.                 *)
(***************************************************************************)
IsDictMarker(line) == line.tag = "dict" /\ IsMarker(line)
IsVoiceLine(line) == line.tag = "dict" /\ ~IsMarker(line)
LineVoice(line) == VoiceSpec(line.key, line.value)

\* the script ends with a cue marker followed by exactly one voice line
EndsWithSingleLineCue(ls) ==
    /\ Len(ls) >= 2
    /\ IsDictMarker(ls[Len(ls) - 1])
    /\ IsVoiceLine(ls[Len(ls)])

\* C6 (as claimed): at the end of the script the current cue is finalized as
\* at a cue marker: a last cue followed by exactly one voice line and then
\* the end of the script is emitted with endVoice = startVoice = that line.
C6_LastCueDefaultsEnd ==
    (p_pc \in {"done", "error"} /\ p_i > Len(lines) /\ EndsWithSingleLineCue(lines)) =>
        /\ p_pc = "done"
        /\ yielded # <<>>
        /\ Last(yielded).start_voice_spec = LineVoice(Last(lines))
        /\ Last(yielded).end_voice_spec = LineVoice(Last(lines))

\* lines k, k+1, k+2 are a cue marker, one voice line, the next cue marker
SingleLineCueAt(k) ==
    /\ k >= 1 /\ k + 2 <= Len(lines)
    /\ IsDictMarker(lines[k])
    /\ IsVoiceLine(lines[k + 1])
    /\ IsDictMarker(lines[k + 2])

\* C7: a cue marker followed by exactly one voice line and then the next cue
\* marker: the second marker does not fail, and once it is processed the cue
\* emitted last has startVoice = endVoice = that voice line (and the first
\* marker's fields).
C7_SingleLineCue ==
    /\ (p_pc = "error" /\ SingleLineCueAt(p_i - 2)) => FALSE
    /\ (p_pc = "iter" /\ SingleLineCueAt(p_i - 3)) =>
          /\ yielded # <<>>
          /\ Last(yielded).start_voice_spec = LineVoice(lines[p_i - 2])
          /\ Last(yielded).end_voice_spec = LineVoice(lines[p_i - 2])
          /\ Last(yielded).value = lines[p_i - 3].value

\* C7 witness: the second marker of such a triple has just been processed
\* and the cue was emitted
C7_Witness ==
    /\ p_pc = "iter"
    /\ SingleLineCueAt(p_i - 3)
    /\ yielded # <<>>
    /\ Last(yielded).start_voice_spec = Last(yielded).end_voice_spec
    /\ Last(yielded).start_voice_spec = [character |-> Reimu, text |-> <<"a">>]

\* the positions of the cue markers of a script, and the voice lines that
\* follow the marker at k up to the next marker or the end of the script
MarkerPositions(ls) == {k \in 1..Len(ls) : IsMarker(ls[k])}
VoicesAfter(ls, k) ==
    {i \in (k + 1)..Len(ls) :
        /\ IsVoiceLine(ls[i])
        /\ \A h \in (k + 1)..i : ~IsMarker(ls[h])}

\* every cue marker is followed by at least two voice lines
ExplicitBounds(ls) ==
    \A k \in MarkerPositions(ls) :
        IsDictMarker(ls[k]) /\ Cardinality(VoicesAfter(ls, k)) >= 2

\* the cue markers of a script, in script order
MarkerLines(ls) == SelectSeq(ls, IsMarker)

\* C8: for a script whose n cue markers are each followed by at least two voice
\* lines, the parser does not fail and yields exactly n cue specifications, in
\* script order: the i-th has the kind and fields of the i-th marker and
\* non-null startVoice and endVoice.
C8_CountAndOrder ==
    ExplicitBounds(lines) =>
        /\ p_pc # "error"
        /\ p_pc = "done" =>
              /\ Len(yielded) = Len(MarkerLines(lines))
              /\ \A i \in 1..Len(yielded) :
                    /\ yielded[i].kind = "image" <=> MarkerLines(lines)[i].key = ImageWord
                    /\ yielded[i].kind = "text" <=> MarkerLines(lines)[i].key = TextWord
                    /\ yielded[i].value = MarkerLines(lines)[i].value
                    /\ yielded[i].start_voice_spec # NoneVal
                    /\ yielded[i].end_voice_spec # NoneVal

\* C8 witness: a script of two different cues with explicit bounds is parsed
C8_Witness ==
    /\ p_pc = "done"
    /\ ExplicitBounds(lines)
    /\ Len(yielded) = 2
    /\ yielded[1].kind # yielded[2].kind

\* the current cue has received no voice line and the parser is at a cue
\* marker or at the end of the script
StartUnsetAtBoundary ==
    /\ p_pc = "iter"
    /\ current_item # NoneVal
    /\ current_item.start_voice_spec = NoneVal
    /\ (p_i > Len(lines) \/ IsMarker(lines[p_i]))

\* C9: no emitted cue has an unset startVoice; when a cue marker or the end of
\* the script is reached while the current cue has received no voice line, the
\* step fails and emits nothing, and nothing is emitted after a failure.
C9_NoCueWithoutStart ==
    /\ [](\A k \in 1..Len(yielded) : yielded[k].start_voice_spec # NoneVal)
    /\ [][ /\ StartUnsetAtBoundary =>
               p_pc' = "error" /\ p_err' = "AssertionError" /\ yielded' = yielded
           /\ p_pc = "error" => UNCHANGED vars ]_vars

\* C9 witness: one cue was emitted, the next received no voice line, and the
\* parser failed at the marker that follows it
C9_Witness ==
    /\ p_pc = "error"
    /\ p_err = "AssertionError"
    /\ p_i <= Len(lines)
    /\ current_item.start_voice_spec = NoneVal
    /\ Len(yielded) = 1

\* C10: the run removes nothing from the project's item list and changes no
\* pre-existing item but in its Layer; after a successful run the list is the
\* original items in their order followed by one synthesized item per cue
\* taken from the queue, in cue order, and that list is what is written.
C10_ItemsIntact ==
    /\ Len(Items) >= NumOrig
    /\ \A k \in 1..NumOrig :
          [Items[k] EXCEPT !.Layer = orig_items[k].Layer] = orig_items[k]
    /\ pc = "done" =>
          /\ output = Items
          /\ NumNew = n_popped
          /\ \A j \in 1..NumNew :
                LET new == Items[NumOrig + j]
                IN  /\ new.Type = (IF yielded[j].kind = "image" THEN "Image" ELSE "Text")
                    /\ new.Payload = yielded[j].value
                    /\ new.Frame = orig_items[StartPos(j)].Frame

\* C10 witness: a run that consumed the whole voice-item queue of a project
\* of three items and synthesized a text item and an image item is over
C10_Witness ==
    /\ pc = "done"
    /\ NumOrig = 3
    /\ NumNew = 2
    /\ Items[NumOrig + 1].Type # Items[NumOrig + 2].Type
    /\ \E k \in 1..NumOrig : orig_items[k].Type = "Voice" /\ orig_items[k].Layer >= 3
    /\ voice_items = <<>>

(***************************************************************************)
(* C11.  For positive image sides the calculator returns: the zoom is 100  *)
(* times the smaller of (Width - 20) / image_width and                     *)
(* (Height - 20 - 320) / image_height, y is -320 / 2, and both             *)
(* postconditions hold strictly.  The expected values are stated by cross  *)
(* multiplication on the integers of the call.                             *)
(***************************************************************************)
PositiveImage == t_in # NoneVal /\ t_in[1] > 0 /\ t_in[2] > 0

C11_ZoomAndPostconditions ==
    (PositiveImage /\ t_out # NoneVal) =>
        /\ t_out.err = ""
        /\ LET z == t_out.zoom
               iw == t_in[1]
               ih == t_in[2]
               w == video_info.Width - SideMargin
               h == video_info.Height - SideMargin - BottomMargin
           IN  /\ z.den > 0
               /\ \/ z.num * iw = 100 * w * z.den
                  \/ z.num * ih = 100 * h * z.den
               /\ z.num * iw <= 100 * w * z.den
               /\ z.num * ih <= 100 * h * z.den
               /\ z.num * ih < 100 * (video_info.Height - BottomMargin) * z.den
               /\ z.num * iw < 100 * video_info.Width * z.den
        /\ t_out.y.den > 0
        /\ 2 * t_out.y.num = (-BottomMargin) * t_out.y.den

\* the 800x600 image on the 1920x1080 canvas: the height limits the zoom
C11_Witness ==
    /\ t_in = <<800, 600>>
    /\ video_info = FullHD
    /\ t_out # NoneVal
    /\ t_out.err = ""
    /\ t_out.zoom = [num |-> 370, den |-> 3]
    /\ t_out.y = [num |-> -160, den |-> 1]

(***************************************************************************)
(* C12.  The calculator raises whenever a side of the image is zero or     *)
(* negative: it returns no transform for such an image.                    *)
(***************************************************************************)
NonPositiveImage == t_in # NoneVal /\ (t_in[1] <= 0 \/ t_in[2] <= 0)

SynthesizeStep == pc = "synth" /\ pc' = "loop"

\* the pairs <<animation, input>> of the item appended by this step
BuiltAnimations ==
    LET spec == current_item_spec'
        new == Last(Items')
    IN  (IF Truthy(spec.zoom) THEN {<<new.Zoom, spec.zoom>>} ELSE {})
        \cup (IF Truthy(spec.y) THEN {<<new.Y, spec.y>>} ELSE {})
        \cup (IF spec.kind = "text" /\ Truthy(spec.font_size)
              THEN {<<new.FontSize, spec.font_size>>} ELSE {})

\* C13 (as claimed): every constant animation built for a synthesized item
\* has from == to == the input value, curveType and span at their defaults
C13_ConstFromEqualsTo ==
    [][SynthesizeStep =>
        \A b \in BuiltAnimations :
            /\ b[1].From = b[2]
            /\ b[1].To = b[2]
            /\ b[1].AnimationType = Animation.AnimationType
            /\ b[1].Span = Animation.Span]_vars

\* C13 (amended): every constant animation built for a synthesized item has
\* from == the input value, and to, curveType and span at their defaults
\* (to is 0)
C13_ConstFromOnly ==
    [][SynthesizeStep =>
        \A b \in BuiltAnimations :
            /\ b[1].From = b[2]
            /\ b[1].To = Num(0)
            /\ b[1].AnimationType = Animation.AnimationType
            /\ b[1].Span = Animation.Span]_vars

\* C13 witness: a text item built from {text: t, zoom: 50, y: -10,
\* font_size: 30} carries the three values
C13_Witness ==
    /\ NumNew >= 1
    /\ Items[NumOrig + 1].Type = "Text"
    /\ Items[NumOrig + 1].Zoom.From = Num(50)
    /\ Items[NumOrig + 1].Y.From = Num(-10)
    /\ Items[NumOrig + 1].FontSize.From = Num(30)

(***************************************************************************)
(* C14.  The top-level loop (lines 59-95).  LoopMeasure is a natural       *)
(* number that every step of the loop makes smaller, so that no run stays  *)
(* in the loop for ever.                                                   *)
(***************************************************************************)
InLoop == pc \in {"loop", "scan_start", "scan_end", "synth"}

LoopRank ==
    CASE pc = "scan_start" -> 4
      [] pc = "scan_end" -> 3
      [] pc = "synth" -> 2
      [] pc = "loop" -> 1
      [] OTHER -> 0

LoopMeasure == 4 * Len(item_specs) + Len(voice_items) + LoopRank

\* C14: the loop body is entered only while both queues are non-empty, and is
\* entered whenever they are; every step of the loop lowers LoopMeasure (the
\* loop terminates); when the loop condition is tested with the voice-item
\* queue empty, the run leaves the loop and writes the document with no error
\* raised and no item produced, whatever cues remain.
C14_LeftoverCuesDropped ==
    [][/\ InLoop => (LoopMeasure' < LoopMeasure /\ LoopMeasure' >= 0)
       /\ (pc = "loop" /\ pc' = "scan_start") =>
              (item_specs # <<>> /\ voice_items # <<>>)
       /\ (pc = "loop" /\ item_specs # <<>> /\ voice_items # <<>>) =>
              pc' = "scan_start"
       /\ (pc = "loop" /\ voice_items = <<>>) =>
              /\ pc' = "write"
              /\ err' = NoErr
              /\ Items' = Items
              /\ item_specs' = item_specs
       /\ pc = "write" =>
              /\ pc' = "done"
              /\ err' = NoErr
              /\ output' = Items
              /\ Items' = Items]_vars

\* C14 witness: a run is over without error after a match emptied the
\* voice-item queue while cues were left: one item per cue popped, the
\* remaining cues still in the queue
C14_Witness ==
    /\ pc = "done"
    /\ err = NoErr
    /\ n_popped >= 1
    /\ item_specs # <<>>
    /\ voice_items = <<>>
    /\ NumNew = n_popped
    /\ output = Items

(***************************************************************************)
(* C15.  One voice item as both bounds.                                    *)
(***************************************************************************)
SameBounds ==
    current_item_spec.start_voice_spec = current_item_spec.end_voice_spec

\* C15: the step that records the start item leaves it at the head of the
\* queue; for a cue with startVoice == endVoice the end scan pops that same
\* item at once, the new item takes that item's frame and duration, and the
\* queue is then the voice items after it: that item and the items discarded
\* before it are consumed, and no other.
C15_StartNotPopped ==
    [][/\ (pc = "scan_start" /\ pc' = "scan_end") =>
              /\ voice_items' = voice_items
              /\ start_voice_item' = Head(voice_items)
       /\ (pc = "scan_end" /\ SameBounds) =>
              /\ pc' = "synth"
              /\ end_voice_item' = start_voice_item
              /\ voice_items' = VoiceRefs(Items, start_voice_item + 1)
       /\ (pc = "synth" /\ pc' = "loop" /\ SameBounds) =>
              /\ end_voice_item = start_voice_item
              /\ Last(Items').Frame = Items[start_voice_item].Frame
              /\ Last(Items').Length = Items[start_voice_item].Length
              /\ voice_items' = VoiceRefs(Items, start_voice_item + 1)]_vars

\* C15 witness: a single-line cue was matched by the second voice item of the
\* project, after one item was discarded, and the new item has that item's
\* frame and duration
C15_Witness ==
    /\ pc = "loop"
    /\ NumNew = 1
    /\ n_popped = 1
    /\ SameBounds
    /\ start_voice_item = 2
    /\ end_voice_item = 2
    /\ orig_items[1].Type = "Voice"
    /\ Last(Items).Frame = Items[2].Frame
    /\ Last(Items).Length = Items[2].Length
    /\ voice_items = VoiceRefs(orig_items, 3)

(***************************************************************************)
(* C16.  The cursor only moves forward.  Positions are positions in        *)
(* project.Timeline.Items; start_voice_item and end_voice_item hold the    *)
(* positions matched by the cue before, until the next match.              *)
(***************************************************************************)
\* C16: the queue is in the order of the project and holds only items after
\* the last matched end, and inside the loop it changes only by losing its
\* head; the start matched for a cue is after the start and after the end
\* matched for the cue before; the end matched for a cue is at or after its
\* start and after the end matched for the cue before.  So no item is
\* matched by two cues.
C16_CursorForward ==
    [][/\ \A k \in 1..Len(voice_items) :
              /\ voice_items[k] > end_voice_item
              /\ k > 1 => voice_items[k] > voice_items[k - 1]
       /\ InLoop => \/ voice_items' = voice_items
                    \/ voice_items # <<>> /\ voice_items' = Tail(voice_items)
       /\ (pc = "scan_start" /\ pc' = "scan_end") =>
              /\ start_voice_item' > end_voice_item
              /\ start_voice_item' > start_voice_item
       /\ (pc = "scan_end" /\ pc' = "synth") =>
              /\ end_voice_item' >= start_voice_item
              /\ end_voice_item' > end_voice_item]_vars

\* C16 witness: two cues were matched, the first by item 1, the second by
\* items 2 and 3
C16_Witness ==
    /\ pc = "loop"
    /\ NumNew = 2
    /\ Items[NumOrig + 1].Frame = orig_items[1].Frame
    /\ start_voice_item = 2
    /\ end_voice_item = 3

(***************************************************************************)
(* C17.  The end bound is the last voice line.                             *)
(***************************************************************************)
\* the position of the i-th cue marker of a script
NthMarker(ls, i) ==
    CHOOSE k \in MarkerPositions(ls) :
        Cardinality({h \in MarkerPositions(ls) : h <= k}) = i

Min(S) == CHOOSE x \in S : \A y \in S : x <= y
Max(S) == CHOOSE x \in S : \A y \in S : x >= y

\* C17: every cue emitted for a marker that is followed by two or more voice
\* lines (up to the next marker or the end of the script) has the first of
\* them as startVoice and the last of them as endVoice, whatever lies between.
C17_EndIsLastVoiceLine ==
    \A i \in 1..Len(yielded) :
        LET voices == VoicesAfter(lines, NthMarker(lines, i))
        IN  Cardinality(voices) >= 2 =>
                /\ yielded[i].start_voice_spec = LineVoice(lines[Min(voices)])
                /\ yielded[i].end_voice_spec = LineVoice(lines[Max(voices)])

\* C17 witness: a cue followed by three voice lines and a plain line, the
\* first and the last voice line differing, was emitted
C17_Witness ==
    /\ Len(yielded) >= 1
    /\ Cardinality(VoicesAfter(lines, NthMarker(lines, 1))) = 3
    /\ \E h \in 1..Len(lines) :
          /\ lines[h] = PlainLine
          /\ h > Min(VoicesAfter(lines, NthMarker(lines, 1)))
          /\ h < Max(VoicesAfter(lines, NthMarker(lines, 1)))
    /\ yielded[1].start_voice_spec # yielded[1].end_voice_spec
    /\ yielded[1].end_voice_spec =
          LineVoice(lines[Max(VoicesAfter(lines, NthMarker(lines, 1)))])

(***************************************************************************)
(* C18.  Ignored lines.  Essential(ls) is the script without the lines the *)
(* claim calls ignored: null lines, empty mappings, plain strings, and the *)
(* voice lines before the first cue marker.                                *)
(***************************************************************************)
IsMapping(line) == line.tag = "dict"

RECURSIVE DropLeadingVoices(_)
DropLeadingVoices(ls) ==
    IF ls = <<>> THEN <<>>
    ELSE IF IsMarker(Head(ls)) THEN ls
    ELSE DropLeadingVoices(Tail(ls))

Essential(ls) == DropLeadingVoices(SelectSeq(ls, IsMapping))

\* C18 (as claimed): when the script without its ignored lines is parsed
\* without error, the script with them is parsed without error too and emits
\* the same cue specifications.
C18_IgnoredLinesChangeNothing ==
    (p_pc \in {"done", "error"} /\ ListItemSpecs(Essential(lines)).err = "") =>
        /\ p_pc = "done"
        /\ yielded = ListItemSpecs(Essential(lines)).yielded

(***************************************************************************)
(* C19.  Zoom and y of an image cue.  At "synth" current_item_spec still   *)
(* holds the values of the script; the step to "loop" appends the item.    *)
(***************************************************************************)
\* the transform of the image of the cue, for one of the sizes it may have
Calculated(image_size) ==
    CalculateImageTransformation(image_size, video_info, BottomMargin, SideMargin)

\* C19 (as claimed): for each of zoom and y, the image item appended carries
\* the value of the script when the script sets one, 0 included, and the
\* calculator's value when it sets none.
C19_ZoomAndYIndependent ==
    [][(SynthesizeStep /\ current_item_spec.kind = "image") =>
        \E image_size \in MainImageSizes :
            /\ Last(Items').Zoom.From =
                  (IF current_item_spec.zoom # NoneVal THEN current_item_spec.zoom
                   ELSE Calculated(image_size).zoom)
            /\ Last(Items').Y.From =
                  (IF current_item_spec.y # NoneVal THEN current_item_spec.y
                   ELSE Calculated(image_size).y)]_vars

(***************************************************************************)
(* C20.  Synthesized items do not overlap in time.                         *)
(***************************************************************************)
\* the voice items of the project as loaded are in ascending frame order,
\* have positive durations and do not overlap
VoicesWellOrdered ==
    LET refs == VoiceRefs(orig_items, 1)
    IN  \A k \in 1..Len(refs) :
            /\ orig_items[refs[k]].Length > 0
            /\ k > 1 => orig_items[refs[k]].Frame >=
                            orig_items[refs[k - 1]].Frame + orig_items[refs[k - 1]].Length

\* C20: for a project whose voice items are well ordered, every synthesized
\* item has a positive duration, and the item of each cue starts at or after
\* the last frame of the item of the cue before.
C20_NoOverlap ==
    VoicesWellOrdered =>
        \A j \in 1..NumNew :
            /\ Items[NumOrig + j].Length > 0
            /\ j > 1 => Items[NumOrig + j].Frame >=
                            Items[NumOrig + j - 1].Frame + Items[NumOrig + j - 1].Length

\* C20 witness: a project of three well-ordered voice items, two cues
\* matched, the second spanning two voice items
C20_Witness ==
    /\ VoicesWellOrdered
    /\ Len(VoiceRefs(orig_items, 1)) = 3
    /\ NumNew = 2
    /\ Items[NumOrig + 2].Length > orig_items[3].Length
    /\ Items[NumOrig + 2].Frame >= Items[NumOrig + 1].Frame + Items[NumOrig + 1].Length


====
